---- MODULE Spec2Model ----
(***************************************************************************)
(* Diff parsing and selective patch reconstruction of LocalGitOperations   *)
(* (src/app/out-of-memory-monitor-plugin.ts).                              *)
(*                                                                         *)
(* Text is a sequence of one-character strings; the token "NUL" stands for *)
(* the \0 byte that git diff -z writes between its raw records.  A list  *)
(* of text lines is a sequence of such sequences.  The patch body the code *)
(* builds by patchBody += text + '\n' is kept as the list of its lines.  *)
(***************************************************************************)
EXTENDS Integers, Sequences, FiniteSets, TLC

(***************************************************************************)
(* Bounds of the model.                                                    *)
(***************************************************************************)
\* longest body (content lines) of the generated single-section diffs
MaxBody == 3
\* most sections in the generated multi-section diffs
MaxSections == 3
\* largest position a user toggles in the selection
MaxPos == 4

(***************************************************************************)
(* JavaScript string and number primitives, as the code uses them.         *)
(***************************************************************************)
NL == "\n"
NUL == "NUL"
AtAt == <<"@", "@">>
DigitChars == <<"0", "1", "2", "3", "4", "5", "6", "7", "8", "9">>
Digits == {DigitChars[i] : i \in 1..10}

SetMin(S) == CHOOSE x \in S : \A y \in S : x <= y
SetMax(S) == CHOOSE x \in S : \A y \in S : x >= y

\* parseInt of an absent capture group (undefined) is NaN; NaN is absorbing
\* under subtraction
NaN == -1000000

JsSub(a, b) == IF a = NaN \/ b = NaN THEN NaN ELSE a - b

\* 0-based positions >= from at which pat occurs in s
Occurrences(s, pat, from) ==
  {i \in (IF from < 0 THEN 0 ELSE from)..(Len(s) - Len(pat)) :
      SubSeq(s, i + 1, i + Len(pat)) = pat}

\* String.prototype.indexOf(pat, from)
IndexOf(s, pat, from) ==
  LET occ == Occurrences(s, pat, from)
  IN IF occ = {} THEN -1 ELSE SetMin(occ)

\* String.prototype.lastIndexOf(pat)
LastIndexOf(s, pat) ==
  LET occ == Occurrences(s, pat, 0)
  IN IF occ = {} THEN -1 ELSE SetMax(occ)

\* String.prototype.substr(start), and substring(start) for start >= 0; a
\* negative start counts from the end of the text
Substr(s, start) ==
  SubSeq(s, (IF start < 0 THEN SetMax({Len(s) + start, 0}) ELSE start) + 1,
         Len(s))

\* String.prototype.substr(0, length)
SubstrTo(s, length) == SubSeq(s, 1, length)

\* String.prototype.startsWith
StartsWith(s, p) == Len(s) >= Len(p) /\ SubSeq(s, 1, Len(p)) = p

\* String.prototype.split(sep) for a one-character separator
RECURSIVE Split(_, _)
Split(s, sep) ==
  LET at == IndexOf(s, <<sep>>, 0)
  IN IF at = -1 THEN <<s>>
     ELSE <<SubSeq(s, 1, at)>> \o Split(Substr(s, at + 1), sep)

\* Array.prototype.slice(1, length - 1)
Slice1(lines) == SubSeq(lines, 2, Len(lines) - 1)

\* parseInt(text, 10) of a run of decimal digits; the empty run stands for an
\* absent capture group
DigitValue(c) == (CHOOSE i \in 1..10 : DigitChars[i] = c) - 1

RECURSIVE ParseDigits(_, _)
ParseDigits(s, acc) ==
  IF s = <<>> THEN acc
  ELSE ParseDigits(Tail(s), acc * 10 + DigitValue(Head(s)))

ParseInt(s) == IF s = <<>> THEN NaN ELSE ParseDigits(s, 0)

(***************************************************************************)
(* sectionRegex, the multi-line pattern                                    *)
(*   ^@@ -(\d+)(,+(\d+))? \+(\d+)(,(\d+))? @@ ?<rest of the line>$          *)
(* Positions are 1-based here.  The optional blank and the rest of the     *)
(* line match at any place, so a match is decided by the part up to the    *)
(* closing " @@".                                                          *)
(***************************************************************************)
\* first position >= q whose character is not in cs (past the end if none)
RunEnd(s, q, cs) ==
  IF q > Len(s) THEN q
  ELSE SetMin({j \in q..(Len(s) + 1) : j = Len(s) + 1 \/ s[j] \notin cs})

LitAt(s, q, lit) ==
  /\ q >= 1
  /\ q + Len(lit) - 1 <= Len(s)
  /\ SubSeq(s, q, q + Len(lit) - 1) = lit

\* sectionRegex.exec(s) returning null
NoMatch == [ok |-> FALSE, oldFileStart |-> <<>>, oldFileEnd |-> <<>>,
            newFileStart |-> <<>>, newFileEnd |-> <<>>]

\* the match attempted with ^ at position p; an absent capture group
\* (undefined) is the empty run
MatchAt(s, p) ==
  LET a     == p + 4
      aEnd  == RunEnd(s, a, Digits)
      cEnd  == RunEnd(s, aEnd, {","})
      bEnd  == RunEnd(s, cEnd, Digits)
      oldG  == cEnd > aEnd /\ bEnd > cEnd
      n     == (IF oldG THEN bEnd ELSE aEnd) + 2
      nEnd  == RunEnd(s, n, Digits)
      dEnd  == RunEnd(s, nEnd + 1, Digits)
      newG  == LitAt(s, nEnd, <<",">>) /\ dEnd > nEnd + 1
      close == IF newG THEN dEnd ELSE nEnd
  IN IF /\ LitAt(s, p, <<"@", "@", " ", "-">>)
        /\ aEnd > a
        /\ LitAt(s, n - 2, <<" ", "+">>)
        /\ nEnd > n
        /\ LitAt(s, close, <<" ", "@", "@">>)
     THEN [ok |-> TRUE,
           oldFileStart |-> SubSeq(s, a, aEnd - 1),
           oldFileEnd   |-> IF oldG THEN SubSeq(s, cEnd, bEnd - 1) ELSE <<>>,
           newFileStart |-> SubSeq(s, n, nEnd - 1),
           newFileEnd   |-> IF newG THEN SubSeq(s, nEnd + 1, dEnd - 1)
                            ELSE <<>>]
     ELSE NoMatch

\* with the m flag ^ matches at the start of the text and after every newline
LineStarts(s) == {p \in 1..Len(s) : p = 1 \/ s[p - 1] = NL}

MatchStarts(s) == {p \in LineStarts(s) : MatchAt(s, p).ok}

\* sectionRegex.exec(s): the leftmost match, or null
SectionRegexExec(s) ==
  LET starts == MatchStarts(s)
  IN IF starts = {} THEN NoMatch ELSE MatchAt(s, SetMin(starts))

(***************************************************************************)
(* The parsed model: DiffLine, DiffSectionRange, DiffSection.              *)
(* A line number that is null is <<>>, a number n is <<n>>.  The mutable   *)
(* field DiffLine.selected is read by no operation modelled here.          *)
(***************************************************************************)
DiffLine(text, type, oldLineNumber, newLineNumber) ==
  [text |-> text, type |-> type,
   oldLineNumber |-> oldLineNumber, newLineNumber |-> newLineNumber]

DiffSectionRange(oldStartLine, oldEndLine, newStartLine, newEndLine) ==
  [oldStartLine |-> oldStartLine, oldEndLine |-> oldEndLine,
   newStartLine |-> newStartLine, newEndLine |-> newEndLine]

\* DiffSection.mapToDiffLineType
mapToDiffLineType(text) ==
  IF StartsWith(text, <<"-">>) THEN "Delete"
  ELSE IF StartsWith(text, <<"+">>) THEN "Add"
  ELSE "Context"

\* SectionLineStep with the counters used before they are incremented
SectionLineStepPostIncrement(acc, text) ==
  IF StartsWith(text, AtAt)
  THEN [acc EXCEPT !.lines = Append(@, DiffLine(text, "Hunk", <<>>, <<>>))]
  ELSE IF mapToDiffLineType(text) = "Delete"
  THEN [lines  |-> Append(acc.lines,
                     DiffLine(text, "Delete", <<acc.before>>, <<>>)),
        before |-> acc.before + 1, after |-> acc.after]
  ELSE IF mapToDiffLineType(text) = "Add"
  THEN [lines  |-> Append(acc.lines,
                     DiffLine(text, "Add", <<>>, <<acc.after>>)),
        before |-> acc.before, after |-> acc.after + 1]
  ELSE [lines  |-> Append(acc.lines,
                     DiffLine(text, "Context", <<acc.before>>, <<acc.after>>)),
        before |-> acc.before + 1, after |-> acc.after + 1]

\* the callback of lines.map in the DiffSection constructor, with the two
\* rolling counters threaded through: acc = [lines, before, after]
SectionLineStep(acc, text) ==
  IF StartsWith(text, AtAt)
  THEN [acc EXCEPT !.lines = Append(@, DiffLine(text, "Hunk", <<>>, <<>>))]
  ELSE IF mapToDiffLineType(text) = "Delete"
  THEN [lines  |-> Append(acc.lines,
                     DiffLine(text, "Delete", <<acc.before + 1>>, <<>>)),
        before |-> acc.before + 1, after |-> acc.after]
  ELSE IF mapToDiffLineType(text) = "Add"
  THEN [lines  |-> Append(acc.lines,
                     DiffLine(text, "Add", <<>>, <<acc.after + 1>>)),
        before |-> acc.before, after |-> acc.after + 1]
  ELSE [lines  |-> Append(acc.lines,
                     DiffLine(text, "Context",
                              <<acc.before + 1>>, <<acc.after + 1>>)),
        before |-> acc.before + 1, after |-> acc.after + 1]

RECURSIVE SectionLines(_, _)
SectionLines(acc, texts) ==
  IF texts = <<>> THEN acc.lines
  ELSE SectionLines(SectionLineStep(acc, Head(texts)), Tail(texts))

\* new DiffSection(range, lines, startDiffSection, endDiffSection)
DiffSection(range, lines, startDiffSection, endDiffSection) ==
  [range |-> range,
   lines |-> SectionLines([lines |-> <<>>, before |-> range.oldStartLine,
                           after |-> range.newStartLine], lines),
   startDiffSection |-> startDiffSection,
   endDiffSection |-> endDiffSection]

(***************************************************************************)
(* mapStatus: the status text of a line of git status --porcelain, the two *)
(* characters captured by ([\? \w]{2}), to a FileStatus.                   *)
(***************************************************************************)
\* String.prototype.trim, the only white space of a status text being ' '
RECURSIVE TrimStart(_)
TrimStart(s) ==
  IF s # <<>> /\ Head(s) = " " THEN TrimStart(Tail(s)) ELSE s

RECURSIVE TrimEnd(_)
TrimEnd(s) ==
  IF s # <<>> /\ s[Len(s)] = " " THEN TrimEnd(SubSeq(s, 1, Len(s) - 1))
  ELSE s

Trim(s) == TrimEnd(TrimStart(s))

\* mapStatus without its last comparison, the one of '??'
mapStatusWithoutUntracked(rawStatus) ==
  LET st == Trim(rawStatus)
  IN IF st = <<"M">> THEN "Modified"
     ELSE IF st = <<"A">> THEN "New"
     ELSE IF st = <<"D">> THEN "Deleted"
     ELSE IF st = <<"R">> THEN "Renamed"
     ELSE IF st = <<"R", "M">> THEN "Renamed"
     ELSE IF st = <<"R", "D">> THEN "Conflicted"
     ELSE IF st = <<"D", "D">> THEN "Conflicted"
     ELSE IF st = <<"A", "U">> THEN "Conflicted"
     ELSE IF st = <<"U", "D">> THEN "Conflicted"
     ELSE IF st = <<"U", "A">> THEN "Conflicted"
     ELSE IF st = <<"D", "U">> THEN "Conflicted"
     ELSE IF st = <<"A", "A">> THEN "Conflicted"
     ELSE IF st = <<"U", "U">> THEN "Conflicted"
     ELSE "Modified"

mapStatus(rawStatus) ==
  LET st == Trim(rawStatus)
  IN IF st = <<"M">> THEN "Modified"
     ELSE IF st = <<"A">> THEN "New"
     ELSE IF st = <<"D">> THEN "Deleted"
     ELSE IF st = <<"R">> THEN "Renamed"
     ELSE IF st = <<"R", "M">> THEN "Renamed"
     ELSE IF st = <<"R", "D">> THEN "Conflicted"
     ELSE IF st = <<"D", "D">> THEN "Conflicted"
     ELSE IF st = <<"A", "U">> THEN "Conflicted"
     ELSE IF st = <<"U", "D">> THEN "Conflicted"
     ELSE IF st = <<"U", "A">> THEN "Conflicted"
     ELSE IF st = <<"D", "U">> THEN "Conflicted"
     ELSE IF st = <<"A", "A">> THEN "Conflicted"
     ELSE IF st = <<"U", "U">> THEN "Conflicted"
     ELSE IF st = <<"?", "?">> THEN "New"
     ELSE "Modified"

\* the status texts the pattern can capture, over the letters git writes
\* and two it does not
StatusChars == {" ", "?", "M", "A", "D", "R", "U", "C", "T", "X"}
ModeTexts == {<<x, y>> : x \in StatusChars, y \in StatusChars}

\* the status texts of the file whose commit is followed line by line
CommittedModeTexts == {<<"?", "?">>, <<" ", "M">>}

(***************************************************************************)
(* DiffSelection of the file being committed: the default flag and the     *)
(* sparse map selectedLines from a position to an explicit flag.           *)
(***************************************************************************)
NoOverrides == [p \in {} |-> TRUE]

\* new DiffSelection(true, new Map()) of getStatus
InitialSelection == [include |-> TRUE, selectedLines |-> NoOverrides]

\* Map.prototype.has and Map.prototype.get
Has(selectedLines, index) == index \in DOMAIN selectedLines

Get(selectedLines, index) == selectedLines[index]

\* DiffSelection.isIncludeAll
isIncludeAll(sel) == sel.include /\ DOMAIN sel.selectedLines = {}

(***************************************************************************)
(* Patch reconstruction.  The accumulator of a section is                  *)
(*   patchBody  the lines appended so far                                  *)
(*   count      linesCounted (new file) or linesSkipped (modified file)    *)
(*   trace      per traversed line, the key looked up in the selection     *)
(*              (0 for a context line) and the number of lines appended    *)
(***************************************************************************)
EmptyAcc == [patchBody |-> <<>>, count |-> 0, trace |-> <<>>]

Traced(acc, body, count, index) ==
  [patchBody |-> body, count |-> count,
   trace |-> Append(acc.trace,
                    [index |-> index,
                     emitted |-> Len(body) - Len(acc.patchBody)])]

\* the forEach callback of createPatchForNewFile; i is the 0-based index in
\* the sliced list
NewFileLineStep(acc, line, i, selection) ==
  IF line.type = "Context"
  THEN Traced(acc, Append(acc.patchBody, line.text), acc.count, 0)
  ELSE IF Has(selection, i + 1) /\ Get(selection, i + 1)
  THEN Traced(acc, Append(acc.patchBody, line.text), acc.count + 1, i + 1)
  ELSE Traced(acc, acc.patchBody, acc.count, i + 1)

\* ModifiedLineStep with the adjustment of a deselected deletion left out
ModifiedLineStepNoAdjust(acc, line, i, selection) ==
  IF line.type = "Context"
  THEN Traced(acc, Append(acc.patchBody, line.text), acc.count, 0)
  ELSE IF ~Has(selection, i + 1)
  THEN Traced(acc, acc.patchBody, acc.count, i + 1)
  ELSE IF Get(selection, i + 1)
  THEN Traced(acc, Append(acc.patchBody, line.text), acc.count, i + 1)
  ELSE IF line.type = "Delete"
  THEN Traced(acc, Append(acc.patchBody, <<" ">> \o Tail(line.text)),
              acc.count, i + 1)
  ELSE Traced(acc, acc.patchBody, acc.count + 1, i + 1)

\* the forEach callback of applyPatchToIndex
ModifiedLineStep(acc, line, i, selection) ==
  IF line.type = "Context"
  THEN Traced(acc, Append(acc.patchBody, line.text), acc.count, 0)
  ELSE IF ~Has(selection, i + 1)
  THEN Traced(acc, acc.patchBody, acc.count, i + 1)
  ELSE IF Get(selection, i + 1)
  THEN Traced(acc, Append(acc.patchBody, line.text), acc.count, i + 1)
  ELSE IF line.type = "Delete"
  THEN Traced(acc, Append(acc.patchBody, <<" ">> \o Tail(line.text)),
              acc.count - 1, i + 1)
  ELSE Traced(acc, acc.patchBody, acc.count + 1, i + 1)

RECURSIVE NewFileForEach(_, _, _, _)
NewFileForEach(acc, lines, i, selection) ==
  IF i >= Len(lines) THEN acc
  ELSE NewFileForEach(NewFileLineStep(acc, lines[i + 1], i, selection),
                      lines, i + 1, selection)

RECURSIVE ModifiedForEach(_, _, _, _)
ModifiedForEach(acc, lines, i, selection) ==
  IF i >= Len(lines) THEN acc
  ELSE ModifiedForEach(ModifiedLineStep(acc, lines[i + 1], i, selection),
                       lines, i + 1, selection)

\* headerText.substring(headerText.lastIndexOf('@@') + 2)
AdditionalText(s) ==
  Substr(s.lines[1].text, LastIndexOf(s.lines[1].text, AtAt) + 2)

\* the patch of one section: the two file lines, the synthesized hunk header
\* and the body
SectionPatch(fromFile, s, newLineCount, acc) ==
  [fromFile |-> fromFile, toFile |-> "b/path",
   oldStartLine |-> s.range.oldStartLine, oldEndLine |-> s.range.oldEndLine,
   newStartLine |-> s.range.newStartLine, newLineCount |-> newLineCount,
   additionalText |-> AdditionalText(s),
   patchBody |-> acc.patchBody, trace |-> acc.trace]

\* createPatchForNewFile, one section: the new count is linesCounted
NewFileSectionPatch(s, selection) ==
  LET acc == NewFileForEach(EmptyAcc, Slice1(s.lines), 0, selection)
  IN SectionPatch("/dev/null", s, acc.count, acc)

\* applyPatchToIndex, one section: the new count is oldEndLine - linesSkipped
ModifiedSectionPatch(s, selection) ==
  LET acc == ModifiedForEach(EmptyAcc, Slice1(s.lines), 0, selection)
  IN SectionPatch("a/path", s, JsSub(s.range.oldEndLine, acc.count), acc)

\* createPatchForNewFile: all sections concatenated into one input
createPatchForNewFile(sections, selection) ==
  [k \in 1..Len(sections) |-> NewFileSectionPatch(sections[k], selection)]

\* the inputs of the git apply calls that applyPatchToIndex issues: one call
\* with all sections for a new file, one call per section otherwise
ApplyInputs(st, sections, selection) ==
  IF st = "New" THEN <<createPatchForNewFile(sections, selection)>>
  ELSE [k \in 1..Len(sections) |->
          <<ModifiedSectionPatch(sections[k], selection)>>]

(***************************************************************************)
(* The output of git diff that getDiff receives.  The texts are built from *)
(* pieces; getDiff sees only the characters.                               *)
(***************************************************************************)
RECURSIVE Dec(_)
Dec(n) ==
  IF n < 10 THEN <<DigitChars[n + 1]>>
  ELSE Dec(n \div 10) \o <<DigitChars[(n % 10) + 1]>>

RECURSIVE Concat(_)
Concat(ss) == IF ss = <<>> THEN <<>> ELSE Head(ss) \o Concat(Tail(ss))

RECURSIVE Tuples(_, _)
Tuples(S, n) ==
  IF n = 0 THEN {<<>>}
  ELSE {<<x>> \o t : x \in S, t \in Tuples(S, n - 1)}

TuplesUpTo(S, n) == UNION {Tuples(S, k) : k \in 0..n}

CtxA == <<" ", "a">>
DelB == <<"-", "b">>
AddC == <<"+", "c">>
AddD == <<"+", "d">>
CtxE == <<" ", "e">>
NoNewlineMarker == <<"\\", " ", "n">>
BodyLines == {CtxA, DelB, AddC}

\* the raw record and the file header lines that precede the first hunk
Preamble == <<"r", NUL, "-", "-", "-", " ", "a", NL>>

HunkHeader(os, oc, ns, nc) ==
  AtAt \o <<" ", "-">> \o Dec(os) \o <<",">> \o Dec(oc)
       \o <<" ", "+">> \o Dec(ns) \o <<",">> \o Dec(nc) \o <<" ">> \o AtAt

WithNewlines(lines) == Concat([k \in 1..Len(lines) |-> lines[k] \o <<NL>>])

OldSide(lines) == {k \in 1..Len(lines) : Head(lines[k]) \in {" ", "-"}}
NewSide(lines) == {k \in 1..Len(lines) : Head(lines[k]) \in {" ", "+"}}

\* one hunk at line 10 whose header counts are those of its body
HunkText(lines) ==
  HunkHeader(10, Cardinality(OldSide(lines)), 10, Cardinality(NewSide(lines)))
    \o <<" ", "f", NL>> \o WithNewlines(lines)

SingleSectionTexts ==
  {Preamble \o HunkText(b) : b \in TuplesUpTo(BodyLines, MaxBody)}

\* the hunk (10,3,10,4) with body a, -b, +c, +d, e
ScenarioText == Preamble \o HunkText(<<CtxA, DelB, AddC, AddD, CtxE>>)

\* git diff --no-index /dev/null path, for a file without final newline
NewFileText ==
  HunkHeader(0, 0, 1, 2) \o <<NL>> \o WithNewlines(<<AddC, AddD, NoNewlineMarker>>)

\* hunks of the multi-section texts: one with a complete header and one
\* whose header is not a hunk header; further hunks with an elided count and
\* with a body line that contains @@
FullHunk == HunkHeader(1, 1, 1, 1) \o <<NL>> \o WithNewlines(<<DelB, AddC>>)
ElidedHunk ==
  <<"@", "@", " ", "-", "5", " ", "+", "5", ",", "2", " ", "@", "@", NL>>
    \o WithNewlines(<<CtxA, AddC>>)
MalformedHunk ==
  <<"@", "@", " ", "x", " ", "@", "@", NL>> \o WithNewlines(<<DelB>>)
MidLineHunk ==
  HunkHeader(3, 0, 3, 1) \o <<NL, "+", "c", "@", "@", "d", NL>>
Hunks == {FullHunk, MalformedHunk}

MultiSectionTexts ==
  {Preamble \o Concat(t) : t \in TuplesUpTo(Hunks, MaxSections)}

\* elided count on the old side, on the new side and on both sides
ElidedTexts ==
  {Preamble \o ElidedHunk,
   Preamble \o MalformedHunk \o ElidedHunk,
   <<"@", "@", " ", "-", "5", ",", "2", " ", "+", "5", " ", "@", "@", NL>>
     \o WithNewlines(<<DelB, CtxA>>),
   <<"@", "@", " ", "-", "7", " ", "+", "7", " ", "@", "@", NL>>
     \o WithNewlines(<<DelB, AddC>>)}

\* a hunk header that is the end of the text, no newline after it
UnterminatedHeader ==
  <<"@", "@", " ", "-", "1", " ", "+", "1", " ", "@", "@">>

DiffTexts ==
  SingleSectionTexts \cup MultiSectionTexts \cup ElidedTexts
    \cup {ScenarioText, NewFileText, Preamble \o MidLineHunk \o FullHunk,
          <<>>, Preamble \o UnterminatedHeader,
          Preamble \o FullHunk \o UnterminatedHeader}

\* the model follows the loop of getDiff for at most this many iterations
MaxIterations == MaxSections + 1

(***************************************************************************)
(* State.                                                                  *)
(***************************************************************************)
VARIABLES
  modeText,           \* getStatus: the status text of the file's line
  status,             \* file.status of the file being committed
  diffSelection,      \* file.diffSelection
  pc,                 \* where the staging of the file stands
  diffText,           \* getDiff: the text to parse
  diffTextBuffer,     \* getDiff: the remaining text to parse
  sectionPrefixIndex, \* getDiff: index of the next @@ in the buffer
  prefixFound,        \* getDiff: the loop condition
  pointer,            \* getDiff: running position over the sections
  diffSections,       \* getDiff: the sections built so far
  applyCalls,         \* the inputs of the git apply calls issued
  files,              \* createCommit: the files to commit
  headCall,           \* createCommit: the git show HEAD of resolveHEAD
  resetArgs,          \* createCommit: the arguments of the reset
  resetCall,          \* createCommit: the git reset
  stage,              \* createCommit: per file, the calls that stage it
  commitCall,         \* createCommit: the git commit
  commitPromise       \* createCommit: the promise it returned

parserVars == <<diffText, diffTextBuffer, sectionPrefixIndex, prefixFound,
                pointer, diffSections>>

\* the staging of one file, followed line by line
fileVars == <<modeText, status, diffSelection, pc, parserVars, applyCalls>>

\* the calls of one createCommit
commitVars == <<files, headCall, resetArgs, resetCall, stage, commitCall,
                commitPromise>>

vars == <<fileVars, commitVars>>

Init ==
  /\ modeText = <<>>
  /\ status = "None"
  /\ diffSelection = InitialSelection
  /\ pc = "status"
  /\ diffText = <<>>
  /\ diffTextBuffer = <<>>
  /\ sectionPrefixIndex = -1
  /\ prefixFound = FALSE
  /\ pointer = 0
  /\ diffSections = <<>>
  /\ applyCalls = <<>>
  /\ files = <<>>
  /\ headCall = "none"
  /\ resetArgs = <<>>
  /\ resetCall = "none"
  /\ stage = <<>>
  /\ commitCall = "none"
  /\ commitPromise = "none"

(***************************************************************************)
(* getStatus reads the file's line of git status: the status text is       *)
(* mapped and the file starts fully selected.                              *)
(***************************************************************************)
GetStatus(mode) ==
  /\ pc = "status"
  /\ modeText' = mode
  /\ status' = mapStatus(mode)
  /\ diffSelection' = InitialSelection
  /\ pc' = "idle"
  /\ UNCHANGED <<parserVars, applyCalls, commitVars>>

(***************************************************************************)
(* The user edits the selection before committing.                         *)
(***************************************************************************)
\* DiffSelection: set(position, flag)
SetLine(p, b) ==
  /\ pc = "idle"
  /\ diffSelection' =
       [diffSelection EXCEPT !.selectedLines =
          [q \in DOMAIN @ \cup {p} |-> IF q = p THEN b ELSE @[q]]]
  /\ UNCHANGED <<modeText, status, pc, parserVars, applyCalls, commitVars>>

\* DiffSelection: setAll(flag)
SetAll(b) ==
  /\ pc = "idle"
  /\ diffSelection' = [include |-> b, selectedLines |-> NoOverrides]
  /\ UNCHANGED <<modeText, status, pc, parserVars, applyCalls, commitVars>>

(***************************************************************************)
(* createCommit stages the file: git add when the whole file is selected,  *)
(* applyPatchToIndex otherwise.                                            *)
(***************************************************************************)
AddFileToIndex ==
  /\ pc = "idle"
  /\ isIncludeAll(diffSelection)
  /\ pc' = "added"
  /\ UNCHANGED <<modeText, status, diffSelection, parserVars, applyCalls,
                 commitVars>>

\* applyPatchToIndex up to its await of getDiff
ApplyPatchToIndex ==
  /\ pc = "idle"
  /\ ~isIncludeAll(diffSelection)
  /\ pc' = "getDiff"
  /\ UNCHANGED <<modeText, status, diffSelection, parserVars, applyCalls,
                 commitVars>>

(***************************************************************************)
(* getDiff, from the arrival of the output of git diff.                    *)
(***************************************************************************)
\* result.split('\0') and lines[lines.length - 1]
LastRecord(result) ==
  LET lines == Split(result, NUL) IN lines[Len(lines)]

\* the range of the section at the head of the buffer
SectionRange(buffer) ==
  LET match == SectionRegexExec(buffer)
  IN IF match.ok
     THEN DiffSectionRange(ParseInt(match.oldFileStart),
                           ParseInt(match.oldFileEnd),
                           ParseInt(match.newFileStart),
                           ParseInt(match.newFileEnd))
     ELSE DiffSectionRange(-1, -1, -1, -1)

\* the callback up to a loop that tests its condition after the body
GetDiffStartDoWhile(result) ==
  /\ pc = "getDiff"
  /\ diffText' = LastRecord(result)
  /\ diffTextBuffer' = diffText'
  /\ sectionPrefixIndex' = IndexOf(diffText', AtAt, 0)
  /\ prefixFound' = TRUE
  /\ pointer' = 0
  /\ diffSections' = <<>>
  /\ pc' = "loop"
  /\ UNCHANGED <<modeText, status, diffSelection, applyCalls, commitVars>>

\* the callback up to the loop
GetDiffStart(result) ==
  /\ pc = "getDiff"
  /\ diffText' = LastRecord(result)
  /\ diffTextBuffer' = diffText'
  /\ sectionPrefixIndex' = IndexOf(diffText', AtAt, 0)
  /\ prefixFound' = (sectionPrefixIndex' > -1)
  /\ pointer' = 0
  /\ diffSections' = <<>>
  /\ pc' = "loop"
  /\ UNCHANGED <<modeText, status, diffSelection, applyCalls, commitVars>>

\* one iteration of while (prefixFound)
GetDiffIteration ==
  /\ pc = "loop"
  /\ prefixFound
  /\ Len(diffSections) < MaxIterations
  /\ LET buffer        == Substr(diffTextBuffer, sectionPrefixIndex)
         range         == SectionRange(buffer)
         endOfThisLine == IndexOf(buffer, <<NL>>, 0)
         nextPrefix    == IndexOf(buffer, AtAt, endOfThisLine + 1)
         diffLines     == IF nextPrefix > -1
                          THEN Split(SubstrTo(buffer, nextPrefix), NL)
                          ELSE Split(buffer, NL)
         startDiffSection ==
           IF Len(diffSections) = 0 THEN 0
           ELSE IF nextPrefix > -1 THEN pointer + 1
           ELSE pointer
         endDiffSection ==
           IF Len(diffSections) = 0 THEN Len(diffLines)
           ELSE startDiffSection + Len(diffLines)
     IN /\ diffTextBuffer' = buffer
        /\ sectionPrefixIndex' = nextPrefix
        /\ prefixFound' = (nextPrefix > -1)
        /\ pointer' = IF nextPrefix > -1 THEN pointer + Len(diffLines)
                      ELSE pointer
        /\ diffSections' =
             Append(diffSections,
                    DiffSection(range, diffLines, startDiffSection,
                                endDiffSection))
  /\ UNCHANGED <<modeText, status, diffSelection, pc, diffText, applyCalls,
                 commitVars>>

(***************************************************************************)
(* getDiff returns the Diff and applyPatchToIndex issues its apply calls.  *)
(***************************************************************************)
IssueApplyCalls ==
  /\ pc = "loop"
  /\ ~prefixFound
  /\ applyCalls' =
       ApplyInputs(status, diffSections, diffSelection.selectedLines)
  /\ pc' = "applied"
  /\ UNCHANGED <<modeText, status, diffSelection, parserVars, commitVars>>

Next ==
  \/ \E mode \in CommittedModeTexts : GetStatus(mode)
  \/ \E p \in 1..MaxPos, b \in BOOLEAN : SetLine(p, b)
  \/ \E b \in BOOLEAN : SetAll(b)
  \/ AddFileToIndex
  \/ ApplyPatchToIndex
  \/ \E result \in DiffTexts : GetDiffStart(result)
  \/ GetDiffIteration
  \/ IssueApplyCalls

Spec == Init /\ [][Next]_vars

(***************************************************************************)
(* createCommit, call by call.  A call of git is "none" before it is       *)
(* issued, then "issued", then "ok" or "failed"; a promise is "pending",   *)
(* "resolved" or "rejected".  The callbacks that a completion releases run *)
(* before any other completion arrives, so they are part of its action.    *)
(***************************************************************************)
MaxFiles == 2
MaxHunks == 2

\* a selection with one line deselected
PartialSelection ==
  [include |-> TRUE, selectedLines |-> [q \in {1} |-> FALSE]]

FileChoices ==
  {[status |-> st, diffSelection |-> sel] :
     st \in {"New", "Modified"},
     sel \in {InitialSelection, PartialSelection}}

\* the files argument of createCommit
FileLists == TuplesUpTo(FileChoices, MaxFiles)

\* the callback of files.map: git add, or applyPatchToIndex up to its await
StartStaging(file) ==
  IF isIncludeAll(file.diffSelection)
  THEN [add |-> "issued", getDiff |-> "none", sections |-> 0,
        apply |-> <<>>]
  ELSE [add |-> "none", getDiff |-> "issued", sections |-> 0,
        apply |-> <<>>]

\* applyPatchToIndex after getDiff returned n sections: one apply call for
\* a new file, one per section otherwise, all issued before any completes
StartApply(file, st, n) ==
  [st EXCEPT !.getDiff = "ok",
             !.sections = n,
             !.apply = IF file.status = "New" THEN <<"issued">>
                       ELSE [k \in 1..n |-> "issued"]]

\* the promise that files.map holds for a file
FilePromise(st) ==
  IF st.add # "none"
  THEN IF st.add = "ok" THEN "resolved"
       ELSE IF st.add = "failed" THEN "rejected"
       ELSE "pending"
  ELSE IF st.getDiff = "failed" THEN "rejected"
  ELSE IF st.getDiff # "ok" THEN "pending"
  ELSE IF \E k \in DOMAIN st.apply : st.apply[k] = "failed" THEN "rejected"
  ELSE IF \A k \in DOMAIN st.apply : st.apply[k] = "ok" THEN "resolved"
  ELSE "pending"

\* Promise.all(addFiles) resolved, were it Promise.race
AnyStaged(stg) ==
  stg = <<>> \/ \E f \in DOMAIN stg : FilePromise(stg[f]) = "resolved"

\* Promise.all(addFiles) resolved
AllStaged(stg) ==
  \A f \in DOMAIN stg : FilePromise(stg[f]) = "resolved"

\* Promise.all(addFiles) rejected
SomeRejected(stg) ==
  \E f \in DOMAIN stg : FilePromise(stg[f]) = "rejected"

\* what the state of the files' promises releases: the commit when all are
\* resolved, the catch handler, which logs and returns, when one is rejected
AfterStaging(stg) ==
  IF commitPromise = "pending" /\ commitCall = "none" /\ AllStaged(stg)
  THEN /\ commitCall' = "issued"
       /\ UNCHANGED commitPromise
  ELSE IF commitPromise = "pending" /\ commitCall = "none"
            /\ SomeRejected(stg)
  THEN /\ commitPromise' = "resolved"
       /\ UNCHANGED commitCall
  ELSE UNCHANGED <<commitCall, commitPromise>>

CreateCommit(fs) ==
  /\ commitPromise = "none"
  /\ files' = fs
  /\ headCall' = "issued"
  /\ commitPromise' = "pending"
  /\ UNCHANGED <<resetArgs, resetCall, stage, commitCall, fileVars>>

\* git show HEAD completes: HEAD exists, or the NotFound error, and the
\* reset is issued
ResolveHEAD(result) ==
  /\ headCall = "issued"
  /\ headCall' = IF result THEN "ok" ELSE "failed"
  /\ resetArgs' = IF result THEN <<"reset", "HEAD", "--mixed">>
                  ELSE <<"reset">>
  /\ resetCall' = "issued"
  /\ UNCHANGED <<files, stage, commitCall, commitPromise, fileVars>>

\* git show HEAD fails with another error: resolveHEAD throws and the
\* catch handler of createCommit logs and returns
ResolveHEADThrows ==
  /\ headCall = "issued"
  /\ headCall' = "failed"
  /\ commitPromise' = "resolved"
  /\ UNCHANGED <<files, resetArgs, resetCall, stage, commitCall, fileVars>>

\* git reset completes and every file's staging starts
ResetDone ==
  /\ resetCall = "issued"
  /\ resetCall' = "ok"
  /\ stage' = [f \in 1..Len(files) |-> StartStaging(files[f])]
  /\ AfterStaging(stage')
  /\ UNCHANGED <<files, headCall, resetArgs, fileVars>>

ResetFails ==
  /\ resetCall = "issued"
  /\ resetCall' = "failed"
  /\ commitPromise' = "resolved"
  /\ UNCHANGED <<files, headCall, resetArgs, stage, commitCall, fileVars>>

\* a git add completes
AddDone(f, ok) ==
  /\ f \in DOMAIN stage
  /\ stage[f].add = "issued"
  /\ stage' = [stage EXCEPT ![f].add = IF ok THEN "ok" ELSE "failed"]
  /\ AfterStaging(stage')
  /\ UNCHANGED <<files, headCall, resetArgs, resetCall, fileVars>>

\* getDiff returns a Diff of n sections to applyPatchToIndex
GetDiffReturns(f, n) ==
  /\ f \in DOMAIN stage
  /\ stage[f].getDiff = "issued"
  /\ stage' = [stage EXCEPT ![f] = StartApply(files[f], @, n)]
  /\ AfterStaging(stage')
  /\ UNCHANGED <<files, headCall, resetArgs, resetCall, fileVars>>

\* the git diff of getDiff fails
GetDiffFails(f) ==
  /\ f \in DOMAIN stage
  /\ stage[f].getDiff = "issued"
  /\ stage' = [stage EXCEPT ![f].getDiff = "failed"]
  /\ AfterStaging(stage')
  /\ UNCHANGED <<files, headCall, resetArgs, resetCall, fileVars>>

\* a git apply completes
ApplyDone(f, k, ok) ==
  /\ f \in DOMAIN stage
  /\ k \in DOMAIN stage[f].apply
  /\ stage[f].apply[k] = "issued"
  /\ stage' = [stage EXCEPT ![f].apply[k] = IF ok THEN "ok" ELSE "failed"]
  /\ AfterStaging(stage')
  /\ UNCHANGED <<files, headCall, resetArgs, resetCall, fileVars>>

\* git commit completes; on failure the catch handler logs and returns
CommitDone(ok) ==
  /\ commitCall = "issued"
  /\ commitCall' = IF ok THEN "ok" ELSE "failed"
  /\ commitPromise' = "resolved"
  /\ UNCHANGED <<files, headCall, resetArgs, resetCall, stage, fileVars>>

NextCommit ==
  \/ \E fs \in FileLists : CreateCommit(fs)
  \/ \E result \in BOOLEAN : ResolveHEAD(result)
  \/ ResolveHEADThrows
  \/ ResetDone
  \/ ResetFails
  \/ \E f \in 1..MaxFiles, ok \in BOOLEAN : AddDone(f, ok)
  \/ \E f \in 1..MaxFiles, n \in 0..MaxHunks : GetDiffReturns(f, n)
  \/ \E f \in 1..MaxFiles : GetDiffFails(f)
  \/ \E f \in 1..MaxFiles, k \in 1..MaxHunks, ok \in BOOLEAN :
       ApplyDone(f, k, ok)
  \/ \E ok \in BOOLEAN : CommitDone(ok)

SpecCommit == Init /\ [][NextCommit]_vars

(***************************************************************************)
(* getStatus over every status text the pattern can capture.               *)
(***************************************************************************)
NextStatus == \E mode \in ModeTexts : GetStatus(mode)

SpecStatus == Init /\ [][NextStatus]_vars

(***************************************************************************)
(* Vocabulary of the properties.                                           *)
(***************************************************************************)
\* getDiff has returned its Diff
ParseDone == (pc = "loop" /\ ~prefixFound) \/ pc = "applied"

\* applyPatchToIndex has issued its apply calls
Applied == pc = "applied"

Sections == 1..Len(diffSections)

\* the patch written for section k
PatchOf(k) == IF status = "New" THEN applyCalls[1][k] ELSE applyCalls[k][1]

\* the lines of section k that the reconstruction traverses
Inner(k) == Slice1(diffSections[k].lines)

IsChange(line) == line.type \in {"Add", "Delete"}

ChangeLines(k) == {i \in 1..Len(Inner(k)) : IsChange(Inner(k)[i])}

LinesOfType(k, type) == {i \in 1..Len(Inner(k)) : Inner(k)[i].type = type}

\* get(position) of the selection: the override if present, else the default
Resolve(i) ==
  IF i \in DOMAIN diffSelection.selectedLines
  THEN diffSelection.selectedLines[i]
  ELSE diffSelection.include

\* lines of section k carrying an explicit override false
ExplicitlyDeselected(k, type) ==
  {i \in LinesOfType(k, type) :
     i \in DOMAIN diffSelection.selectedLines
       /\ ~diffSelection.selectedLines[i]}

\* lines of section k that are not selected, by override or by default
Deselected(k, type) == {i \in LinesOfType(k, type) : ~Resolve(i)}

\* every change line of section k has an explicit override
FullyOverridden(k) == ChangeLines(k) \subseteq DOMAIN diffSelection.selectedLines

\* section k is a hunk as git writes it: the header parsed, its counts are
\* those of the content lines, and the text ends with a newline
Truthful(k) ==
  LET s == diffSections[k]
  IN /\ MatchAt(s.lines[1].text, 1).ok
     /\ s.lines[Len(s.lines)].text = <<>>
     /\ s.range.oldEndLine =
          Cardinality(LinesOfType(k, "Context") \cup LinesOfType(k, "Delete"))
     /\ s.range.newEndLine =
          Cardinality(LinesOfType(k, "Context") \cup LinesOfType(k, "Add"))

\* old-side and new-side lines of an emitted body
BodyOldSide(body) ==
  {j \in 1..Len(body) : mapToDiffLineType(body[j]) \in {"Context", "Delete"}}

BodyNewSide(body) ==
  {j \in 1..Len(body) : mapToDiffLineType(body[j]) \in {"Context", "Add"}}

\* number of lines the patch of section k holds once line i was traversed
RECURSIVE EmittedUpTo(_, _)
EmittedUpTo(trace, i) ==
  IF i = 0 THEN 0 ELSE EmittedUpTo(trace, i - 1) + trace[i].emitted

(***************************************************************************)
(* C1.  Modified-file reconstruction: for every section and selection the  *)
(* synthesized header agrees with the emitted body: its old count is the   *)
(* number of emitted old-side lines (context and deletions) and its new    *)
(* count the number of emitted new-side lines (context and additions).     *)
(* Stated for hunks as git writes them whose change lines all carry an     *)
(* override, where the default plays no part.                              *)
(***************************************************************************)
C1_HeaderMatchesBody ==
  (Applied /\ status # "New") =>
    \A k \in Sections :
      (Truthful(k) /\ FullyOverridden(k)) =>
        /\ PatchOf(k).oldEndLine =
             Cardinality(BodyOldSide(PatchOf(k).patchBody))
        /\ PatchOf(k).newLineCount =
             Cardinality(BodyNewSide(PatchOf(k).patchBody))

C3_NewFileCountIsEmitted ==
  (Applied /\ status = "New") =>
    \A k \in Sections :
      Truthful(k) => PatchOf(k).newLineCount = Len(PatchOf(k).patchBody)

(***************************************************************************)
(* C4.  Round trip of full selection: when every change line is selected,  *)
(* the hunk reconstructed for a section holds all content lines of the     *)
(* section and its header new count is the new count declared in the       *)
(* original header.  Stated for hunks as git writes them that hold a       *)
(* change line.                                                            *)
(***************************************************************************)
C4_FullSelectionRoundTrip ==
  (Applied /\ \A k \in Sections : \A i \in ChangeLines(k) : Resolve(i)) =>
    \A k \in Sections :
      (Truthful(k) /\ ChangeLines(k) # {}) =>
        /\ PatchOf(k).patchBody =
             [i \in 1..Len(Inner(k)) |-> Inner(k)[i].text]
        /\ PatchOf(k).newLineCount = diffSections[k].range.newEndLine

(***************************************************************************)
(* C5.  Re-contextified deletions: in the modified-file path every         *)
(* deletion line that is deselected, by an override false or by a default  *)
(* false, has exactly one line emitted for it, at its relative position:   *)
(* a space followed by the text without the leading '-'.                   *)
(***************************************************************************)
C5_DeselectedDeletionKept ==
  (Applied /\ status # "New") =>
    \A k \in Sections :
      \A i \in Deselected(k, "Delete") :
        /\ PatchOf(k).trace[i].emitted = 1
        /\ PatchOf(k).patchBody[EmittedUpTo(PatchOf(k).trace, i)]
             = <<" ">> \o Tail(Inner(k)[i].text)

(***************************************************************************)
(* C6.  Default fallback: in both paths a change line without an entry in  *)
(* the overrides is treated as if its override were includeAllByDefault:   *)
(* the apply calls are those of the selection with every missing entry     *)
(* filled in with the default.                                             *)
(***************************************************************************)
FilledSelection ==
  [i \in UNION {ChangeLines(k) : k \in Sections} |-> Resolve(i)]

C6_DefaultFallback ==
  Applied => applyCalls = ApplyInputs(status, diffSections, FilledSelection)

(***************************************************************************)
(* C7.  Selection addressing: the key looked up for a change line is its   *)
(* 1-based position in the file's sequence of change lines, header and     *)
(* context lines not counted; so no key addresses two change lines of the  *)
(* diff.                                                                   *)
(***************************************************************************)
RECURSIVE ChangesBefore(_)
ChangesBefore(k) ==
  IF k = 1 THEN 0
  ELSE ChangesBefore(k - 1) + Cardinality(ChangeLines(k - 1))

ChangeOrdinal(k, i) ==
  ChangesBefore(k) + Cardinality({j \in ChangeLines(k) : j <= i})

C7_SelectionAddressing ==
  Applied =>
    /\ \A k \in Sections : \A i \in ChangeLines(k) :
         PatchOf(k).trace[i].index = ChangeOrdinal(k, i)
    /\ \A k1, k2 \in Sections :
         \A i1 \in ChangeLines(k1), i2 \in ChangeLines(k2) :
           PatchOf(k1).trace[i1].index = PatchOf(k2).trace[i2].index
             => (k1 = k2 /\ i1 = i2)

(***************************************************************************)
(* C8.  Count elision: a section whose header omits the ",count" of the    *)
(* old or the new side has that count equal to 1 in its range, and the     *)
(* start values are the integers written in the header.                    *)
(***************************************************************************)
OwnHeader(k) == MatchAt(diffSections[k].lines[1].text, 1)

C8_ElidedCountIsOne ==
  ParseDone =>
    \A k \in Sections :
      OwnHeader(k).ok =>
        /\ OwnHeader(k).oldFileEnd = <<>>
             => diffSections[k].range.oldEndLine = 1
        /\ OwnHeader(k).newFileEnd = <<>>
             => diffSections[k].range.newEndLine = 1
        /\ diffSections[k].range.oldStartLine
             = ParseInt(OwnHeader(k).oldFileStart)
        /\ diffSections[k].range.newStartLine
             = ParseInt(OwnHeader(k).newFileStart)

(***************************************************************************)
(* C9.  Malformed header: a section whose own header line does not match   *)
(* the four-integer pattern has all four range fields equal to -1,         *)
(* whatever the headers of the later sections are.                         *)
(***************************************************************************)
C9_MalformedHeaderSentinel ==
  ParseDone =>
    \A k \in Sections :
      ~OwnHeader(k).ok =>
        diffSections[k].range = DiffSectionRange(-1, -1, -1, -1)

(***************************************************************************)
(* C10.  Section index bookkeeping: the first section starts at 0, the     *)
(* start indexes ascend strictly, and consecutive sections are contiguous  *)
(* under one convention: every section starts at the end index of the one  *)
(* before it, or every section starts one past it.                         *)
(***************************************************************************)
C10_SectionIndexes ==
  (ParseDone /\ Len(diffSections) >= 1) =>
    /\ diffSections[1].startDiffSection = 0
    /\ \A k \in 2..Len(diffSections) :
         diffSections[k - 1].startDiffSection < diffSections[k].startDiffSection
    /\ \/ \A k \in 2..Len(diffSections) :
            diffSections[k].startDiffSection
              = diffSections[k - 1].endDiffSection
       \/ \A k \in 2..Len(diffSections) :
            diffSections[k].startDiffSection
              = diffSections[k - 1].endDiffSection + 1

(***************************************************************************)
(* C11.  Line numbering of a section: a line starting with @@ is a hunk    *)
(* header with neither number; '-' makes a deletion with only the old      *)
(* number, '+' an addition with only the new number, anything else a       *)
(* context line with both; the k-th old-side line (context or deletion)    *)
(* has old number oldStart + k and the k-th new-side line (context or      *)
(* addition) has new number newStart + k.                                  *)
(***************************************************************************)
KindOfText(text) ==
  IF Len(text) >= 2 /\ text[1] = "@" /\ text[2] = "@" THEN "Hunk"
  ELSE IF Len(text) >= 1 /\ text[1] = "-" THEN "Delete"
  ELSE IF Len(text) >= 1 /\ text[1] = "+" THEN "Add"
  ELSE "Context"

\* how many of the first j lines are of one of the types
CountUpTo(lines, j, types) ==
  Cardinality({i \in 1..j : lines[i].type \in types})

C11_LineNumbering ==
  \A k \in Sections :
    LET s == diffSections[k]
    IN \A j \in 1..Len(s.lines) :
         LET l    == s.lines[j]
             oldN == <<s.range.oldStartLine
                        + CountUpTo(s.lines, j, {"Context", "Delete"})>>
             newN == <<s.range.newStartLine
                        + CountUpTo(s.lines, j, {"Context", "Add"})>>
         IN /\ l.type = KindOfText(l.text)
            /\ l.type = "Hunk" =>
                 l.oldLineNumber = <<>> /\ l.newLineNumber = <<>>
            /\ l.type = "Add" =>
                 l.oldLineNumber = <<>> /\ l.newLineNumber = newN
            /\ l.type = "Delete" =>
                 l.oldLineNumber = oldN /\ l.newLineNumber = <<>>
            /\ l.type = "Context" =>
                 l.oldLineNumber = oldN /\ l.newLineNumber = newN

\* a parsed section holds a context line followed by a deletion numbered
\* oldStart + 2 and an addition numbered newStart + 2
C11_Witness ==
  /\ ParseDone
  /\ \E k \in Sections :
       LET s == diffSections[k]
       IN /\ s.lines[1].type = "Hunk"
          /\ \E i, j \in 1..Len(s.lines) :
               /\ s.lines[i].type = "Delete"
               /\ s.lines[i].oldLineNumber = <<s.range.oldStartLine + 2>>
               /\ s.lines[j].type = "Add"
               /\ s.lines[j].newLineNumber = <<s.range.newStartLine + 2>>

(***************************************************************************)
(* createCommit and its failures.                                          *)
(***************************************************************************)
\* the add and apply calls of file f
StagingCalls(f) ==
  {stage[f].add} \cup {stage[f].apply[k] : k \in DOMAIN stage[f].apply}

SomeStagingCallFailed ==
  \E f \in DOMAIN stage : "failed" \in StagingCalls(f)

Settled == commitPromise \in {"resolved", "rejected"}

\* C12: when an add or apply call issued while staging a file has failed,
\* the promise of that file's staging is rejected and the promise that
\* createCommit returned, once settled, is rejected
C12_FailurePropagates ==
  /\ \A f \in DOMAIN stage :
       "failed" \in StagingCalls(f) => FilePromise(stage[f]) = "rejected"
  /\ (SomeStagingCallFailed /\ Settled) => commitPromise = "rejected"

(***************************************************************************)
(* getDiff on a text without marker.                                       *)
(***************************************************************************)
NoMarker(text) ==
  \A i \in 1..(Len(text) - 1) : ~(text[i] = "@" /\ text[i + 1] = "@")

\* C13: once getDiff has received a diff text that contains no @@, its
\* loop does not run: the Diff is returned and its section list is empty
C13_EmptyDiff ==
  (pc \in {"loop", "applied"} /\ NoMarker(diffText))
    => (ParseDone /\ diffSections = <<>>)

C13_Witness ==
  /\ pc = "loop"
  /\ diffText # <<>>
  /\ NoMarker(diffText)
  /\ ~prefixFound
  /\ diffSections = <<>>

(***************************************************************************)
(* mapStatus.                                                              *)
(***************************************************************************)
\* a status text of two characters without its blanks
NonBlank(text) == SelectSeq(text, LAMBDA c : c # " ")

ConflictedCodes ==
  {<<"R", "D">>, <<"D", "D">>, <<"A", "U">>, <<"U", "D">>, <<"U", "A">>,
   <<"D", "U">>, <<"A", "A">>, <<"U", "U">>}

\* C14: the status that getStatus gives a file is determined by the trimmed
\* status text: M is Modified; A and ?? are New; D is Deleted; R and RM are
\* Renamed; RD, DD, AU, UD, UA, DU, AA and UU are Conflicted; every other
\* text, the empty one included, is Modified
C14_StatusClassification ==
  pc # "status" =>
    LET code == NonBlank(modeText)
    IN /\ code = <<"M">> => status = "Modified"
       /\ code \in {<<"A">>, <<"?", "?">>} => status = "New"
       /\ code = <<"D">> => status = "Deleted"
       /\ code \in {<<"R">>, <<"R", "M">>} => status = "Renamed"
       /\ code \in ConflictedCodes => status = "Conflicted"
       /\ code \notin {<<"M">>, <<"A">>, <<"?", "?">>, <<"D">>, <<"R">>,
                       <<"R", "M">>} \cup ConflictedCodes
            => status = "Modified"

C14_Witness ==
  /\ pc = "idle"
  /\ modeText = <<"?", "?">>
  /\ status = "New"

(***************************************************************************)
(* The order of the calls of createCommit.                                 *)
(***************************************************************************)
\* no add or apply call is issued before the reset has completed
ResetFirst ==
  (\E f \in DOMAIN stage : StagingCalls(f) # {"none"}) => resetCall = "ok"

\* the calls of a file are those of one route; applyCount gives the number
\* of apply calls of a file whose staging is stage[f]
OneRoute(applyCount(_)) ==
  \A f \in DOMAIN stage :
    IF isIncludeAll(files[f].diffSelection)
    THEN /\ stage[f].add # "none"
         /\ stage[f].getDiff = "none"
         /\ stage[f].apply = <<>>
    ELSE /\ stage[f].add = "none"
         /\ stage[f].getDiff # "none"
         /\ stage[f].getDiff # "ok" => stage[f].apply = <<>>
         /\ stage[f].getDiff = "ok" =>
              /\ Len(stage[f].apply) = applyCount(f)
              /\ \A k \in DOMAIN stage[f].apply :
                   stage[f].apply[k] # "none"

\* the commit is issued only when every file has been staged and each of
\* its add and apply calls has completed successfully
CommitLast ==
  commitCall # "none" =>
    /\ DOMAIN stage = DOMAIN files
    /\ \A f \in DOMAIN stage :
         /\ StagingCalls(f) \subseteq {"none", "ok"}
         /\ "ok" \in StagingCalls(f) \/ stage[f].sections = 0
         /\ stage[f].getDiff \in {"none", "ok"}

\* C15 as written: reset first; add for a fully selected file, one apply
\* call per section of the file's diff otherwise; commit last; no commit
\* once an add or apply call has failed
C15_OrderingAsWritten ==
  /\ ResetFirst
  /\ OneRoute(LAMBDA f : stage[f].sections)
  /\ CommitLast
  /\ SomeStagingCallFailed => commitCall = "none"

\* C15: reset first; add for a fully selected file, otherwise one apply
\* call carrying all sections when the file is new and one apply call per
\* section when it is not; commit last; no commit once an add or apply
\* call has failed
C15_Ordering ==
  /\ ResetFirst
  /\ OneRoute(LAMBDA f : IF files[f].status = "New" THEN 1
                         ELSE stage[f].sections)
  /\ CommitLast
  /\ SomeStagingCallFailed => commitCall = "none"

C15_Witness ==
  /\ commitCall = "issued"
  /\ Len(files) = 2
  /\ isIncludeAll(files[1].diffSelection)
  /\ stage[1].add = "ok"
  /\ files[2].status = "New"
  /\ stage[2].sections = 2
  /\ stage[2].apply = <<"ok">>

(***************************************************************************)
(* The loop of getDiff.                                                    *)
(***************************************************************************)
\* C16: the loop of getDiff produces at most as many sections as the diff
\* text has occurrences of @@
C16_ParserTermination ==
  Len(diffSections) <= Cardinality(Occurrences(diffText, AtAt, 0))

====
